---- MODULE Spec2Model ----
(***************************************************************************)
(* Model of backend/main.py: a CRUD service over one JSON document         *)
(* {"medicines": [{name, price}, ...]} that is read in full on every       *)
(* request and rewritten in full on every mutation.                        *)
(*                                                                         *)
(* Strings are sequences of one-character strings, so that str.strip()     *)
(* and str.lower() are computed rather than assumed.  A price is a tagged  *)
(* value: a JSON number, a JSON string, or absent.  Averages are exact     *)
(* fractions <<numerator, denominator>> in lowest terms.                   *)
(***************************************************************************)
EXTENDS Integers, Sequences, FiniteSets, TLC

VARIABLES file, last, procs, writes, served

vars == <<file, last, procs, writes, served>>

\* Largest number of records a create may grow the list to.
MaxMeds == 3
\* Number of requests the concurrent workers serve in total.
MaxRequests == 3

(***************************************************************************)
(* Strings                                                                 *)
(***************************************************************************)
LowerChar(c) == IF c = "A" THEN "a" ELSE IF c = "B" THEN "b" ELSE c

Lower(s) == [i \in 1..Len(s) |-> LowerChar(s[i])]

RECURSIVE LStrip(_)
LStrip(s) == IF Len(s) > 0 /\ Head(s) = " " THEN LStrip(Tail(s)) ELSE s

RECURSIVE RStrip(_)
RStrip(s) == IF Len(s) > 0 /\ s[Len(s)] = " " THEN RStrip(SubSeq(s, 1, Len(s) - 1)) ELSE s

Strip(s) == RStrip(LStrip(s))

\* An optional string: Form(None) for new_name.
NoneStr == [some |-> FALSE, s |-> <<>>]

Some(s) == [some |-> TRUE, s |-> s]

(***************************************************************************)
(* Records and the persisted document                                      *)
(***************************************************************************)
Num(v) == [t |-> "num", v |-> v]

BadPrice == [t |-> "str", v |-> 0]

NoPrice == [t |-> "none", v |-> 0]

\* JSON true, which Python loads as True: an int whose value is 1.
TruePrice == [t |-> "bool", v |-> 1]

Med(name, price) == [name |-> name, price |-> price]

NoMed == Med(<<>>, NoPrice)

\* The storage artifact: absent, unparsable, a JSON object without a
\* "medicines" list, or a document holding the list meds.
MissingFile == [kind |-> "missing", meds |-> <<>>]

CorruptFile == [kind |-> "corrupt", meds |-> <<>>]

NoShapeFile == [kind |-> "noshape", meds |-> <<>>]

Doc(meds) == [kind |-> "ok", meds |-> meds]

\* Request inputs.
NameInputs == {<<" ">>, <<"a">>, <<"A">>, <<" ", "a">>, <<"b">>, <<"a", "b">>}

NewNameInputs == {NoneStr} \cup {Some(s) : s \in NameInputs}

PriceInputs == {0, 10, 20}

\* read_db: status 500 for unparsable JSON, the empty list for a missing
\* file or a document without a "medicines" list.
read_db_resets(f) ==
  [status |-> 200, meds |-> IF f.kind = "ok" THEN f.meds ELSE <<>>]

read_db(f) ==
  IF f.kind = "corrupt"
  THEN [status |-> 500, meds |-> <<>>]
  ELSE IF f.kind = "ok"
       THEN [status |-> 200, meds |-> f.meds]
       ELSE [status |-> 200, meds |-> <<>>]

\* write_db: the whole document replaces the prior content.
write_db(meds) == Doc(meds)

(***************************************************************************)
(* Responses.  A plan is what a handler computes in memory from the loaded *)
(* document: the response, and the list to write when write is TRUE.       *)
(***************************************************************************)
NoAvg == <<0, 0>>

Plan(status, detail, write, meds, med, avg, count, name) ==
  [status |-> status, detail |-> detail, write |-> write, meds |-> meds,
   med |-> med, avg |-> avg, count |-> count, name |-> name]

Fail(status, detail) == Plan(status, detail, FALSE, <<>>, NoMed, NoAvg, 0, <<>>)

Corrupted == Fail(500, "corrupted")

\* get_all_meds
get_all_meds(db) ==
  IF db.status # 200 THEN Corrupted
  ELSE Plan(200, "ok", FALSE, db.meds, NoMed, NoAvg, 0, <<>>)

(***************************************************************************)
(* get_average_price                                                       *)
(***************************************************************************)
\* isinstance(price, (int, float)): bool is a subclass of int.
IsNumeric(price) == price.t \in {"num", "bool"}

RECURSIVE NumericPrices(_)
NumericPrices(meds) ==
  IF Len(meds) = 0 THEN <<>>
  ELSE (IF IsNumeric(Head(meds).price) THEN <<Head(meds).price.v>> ELSE <<>>)
         \o NumericPrices(Tail(meds))

RECURSIVE SumSeq(_)
SumSeq(s) == IF Len(s) = 0 THEN 0 ELSE Head(s) + SumSeq(Tail(s))

RECURSIVE GCD(_, _)
GCD(a, b) == IF b = 0 THEN a ELSE GCD(b, a % b)

\* sum / n as an exact fraction (n > 0, sum >= 0).
Divide(sum, n) == <<sum \div GCD(sum, n), n \div GCD(sum, n)>>

get_average_price_crash(db) ==
  IF db.status # 200 THEN Corrupted
  ELSE IF \E i \in DOMAIN db.meds : db.meds[i].price.t = "str"
       THEN Fail(500, "internal")
       ELSE LET prices == NumericPrices(db.meds) IN
            IF Len(prices) = 0
            THEN Plan(200, "ok", FALSE, <<>>, NoMed, NoAvg, 0, <<>>)
            ELSE Plan(200, "ok", FALSE, <<>>, NoMed,
                      Divide(SumSeq(prices), Len(prices)), Len(prices), <<>>)

get_average_price(db) ==
  IF db.status # 200 THEN Corrupted
  ELSE LET prices == NumericPrices(db.meds) IN
       IF Len(prices) = 0
       THEN Plan(200, "ok", FALSE, <<>>, NoMed, NoAvg, 0, <<>>)
       ELSE Plan(200, "ok", FALSE, <<>>, NoMed,
                 Divide(SumSeq(prices), Len(prices)), Len(prices), <<>>)

(***************************************************************************)
(* get_single_med: first record whose name equals the argument exactly.    *)
(***************************************************************************)
get_single_med(db, name) ==
  IF db.status # 200 THEN Corrupted
  ELSE LET hits == {i \in DOMAIN db.meds : db.meds[i].name = name} IN
       IF hits = {} THEN Fail(404, "not_found")
       ELSE LET first == CHOOSE i \in hits : \A j \in hits : i <= j IN
            Plan(200, "ok", FALSE, <<>>, db.meds[first], NoAvg, 0, <<>>)

(***************************************************************************)
(* create_med                                                              *)
(***************************************************************************)
existing_names_case_sensitive(meds) == {Strip(meds[i].name) : i \in DOMAIN meds}

existing_names(meds) == {Lower(Strip(meds[i].name)) : i \in DOMAIN meds}

new_med_untrimmed(name, clean_name, price) == Med(name, Num(price))

new_med(name, clean_name, price) == Med(clean_name, Num(price))

append(meds_list, med) == Append(meds_list, med)

create_med(db, name, price) ==
  LET clean_name == Strip(name) IN
  IF Len(clean_name) = 0 THEN Fail(400, "empty_name")
  ELSE IF price <= 0 THEN Fail(400, "bad_price")
  ELSE IF db.status # 200 THEN Corrupted
  ELSE IF Lower(clean_name) \in existing_names(db.meds) THEN Fail(400, "exists")
  ELSE Plan(200, "created", TRUE,
            append(db.meds, new_med(name, clean_name, price)),
            NoMed, NoAvg, 0, clean_name)

(***************************************************************************)
(* update_med                                                              *)
(***************************************************************************)
rename_collides_never(meds, new_key, original_key) == FALSE

rename_collides_no_exemption(meds, new_key, original_key) ==
  \E i \in DOMAIN meds :
     LET existing_name == Strip(meds[i].name) IN
     /\ Len(existing_name) > 0
     /\ Lower(existing_name) = new_key

rename_collides(meds, new_key, original_key) ==
  \E i \in DOMAIN meds :
     LET existing_name == Strip(meds[i].name) IN
     /\ Len(existing_name) > 0
     /\ Lower(existing_name) = new_key
     /\ Lower(existing_name) # original_key

find_med_prefix(meds, original_key) ==
  {i \in DOMAIN meds :
     LET k == Lower(Strip(meds[i].name)) IN
     Len(original_key) <= Len(k) /\ SubSeq(k, 1, Len(original_key)) = original_key}

find_med(meds, original_key) ==
  {i \in DOMAIN meds : Lower(Strip(meds[i].name)) = original_key}

update_med(db, name, price, new_name) ==
  LET original_name == Strip(name)
      new_name_clean == IF new_name.some THEN Strip(new_name.s) ELSE <<>>
      renaming == Len(new_name_clean) > 0
      original_key == Lower(original_name)
      meds_list == db.meds
      hits == find_med(meds_list, original_key)
  IN
  IF Len(original_name) = 0 THEN Fail(400, "empty_name")
  ELSE IF price <= 0 THEN Fail(400, "bad_price")
  ELSE IF new_name.some /\ Len(new_name_clean) = 0 THEN Fail(400, "empty_new_name")
  ELSE IF db.status # 200 THEN Corrupted
  ELSE IF renaming /\ rename_collides(meds_list, Lower(new_name_clean), original_key)
       THEN Fail(400, "exists")
  ELSE IF hits = {} THEN Fail(404, "not_found")
  ELSE LET i == CHOOSE k \in hits : \A j \in hits : k <= j
           med == Med(IF renaming THEN new_name_clean ELSE meds_list[i].name,
                      Num(price))
       IN Plan(200, "updated", TRUE, [meds_list EXCEPT ![i] = med],
               NoMed, NoAvg, 0, med.name)

(***************************************************************************)
(* delete_med                                                              *)
(***************************************************************************)
remaining_of(meds, clean_name) ==
  SelectSeq(meds, LAMBDA med : Lower(Strip(med.name)) # Lower(clean_name))

delete_med_always_writes(db, name) ==
  LET clean_name == Strip(name)
      remaining == remaining_of(db.meds, clean_name)
  IN
  IF Len(clean_name) = 0 THEN Fail(400, "empty_name")
  ELSE IF db.status # 200 THEN Corrupted
  ELSE IF Len(remaining) = Len(db.meds)
       THEN Plan(404, "not_found", TRUE, remaining, NoMed, NoAvg, 0, <<>>)
  ELSE Plan(200, "deleted", TRUE, remaining, NoMed, NoAvg, 0, clean_name)

delete_med(db, name) ==
  LET clean_name == Strip(name)
      remaining == remaining_of(db.meds, clean_name)
  IN
  IF Len(clean_name) = 0 THEN Fail(400, "empty_name")
  ELSE IF db.status # 200 THEN Corrupted
  ELSE IF Len(remaining) = Len(db.meds) THEN Fail(404, "not_found")
  ELSE Plan(200, "deleted", TRUE, remaining, NoMed, NoAvg, 0, clean_name)

(***************************************************************************)
(* Sequential service: each request runs to completion before the next.    *)
(* last records the latest request, the file it found, and its response;   *)
(* follows is the successful create, if any, that came right before a      *)
(* create or a get-by-name request.                                        *)
(***************************************************************************)
Request(op, name, price, new_name, before, plan, follows) ==
  [op |-> op, name |-> name, price |-> price, new_name |-> new_name,
   before |-> before, status |-> plan.status, detail |-> plan.detail,
   listing |-> IF op = "list" THEN plan.meds ELSE <<>>,
   med |-> plan.med, avg |-> plan.avg, count |-> plan.count,
   rname |-> plan.name, follows |-> follows]

NoFollow == [some |-> FALSE, s |-> <<>>, price |-> 0]

NoRequest == Request("none", <<>>, 0, NoneStr, MissingFile, Fail(0, "none"), NoFollow)

Idle == [pc |-> "idle", op |-> "none", name |-> <<>>, price |-> 0,
         status |-> 0, seen |-> <<>>, meds |-> <<>>]

Workers == {1, 2}

Init ==
  /\ file = MissingFile
  /\ last = NoRequest
  /\ procs = [p \in Workers |-> Idle]
  /\ writes = <<>>
  /\ served = 0

Serve(op, name, price, new_name, plan, follows) ==
  /\ file' = IF plan.write THEN write_db(plan.meds) ELSE file
  /\ last' = Request(op, name, price, new_name, file, plan, follows)
  /\ UNCHANGED <<procs, writes, served>>

\* The successful create that the next request comes right after, if any.
Follows ==
  IF last.op = "create" /\ last.status = 200
  THEN [some |-> TRUE, s |-> last.name, price |-> last.price]
  ELSE NoFollow

ListAll == Serve("list", <<>>, 0, NoneStr, get_all_meds(read_db(file)), NoFollow)

AveragePrice ==
  Serve("average", <<>>, 0, NoneStr, get_average_price(read_db(file)), NoFollow)

GetSingle ==
  \E name \in NameInputs :
    Serve("get", name, 0, NoneStr, get_single_med(read_db(file), name), Follows)

Create ==
  \E name \in NameInputs, price \in PriceInputs :
    LET plan == create_med(read_db(file), name, price) IN
    /\ plan.write => Len(plan.meds) <= MaxMeds
    /\ Serve("create", name, price, NoneStr, plan, Follows)

Update ==
  \E name \in NameInputs, price \in PriceInputs, new_name \in NewNameInputs :
    Serve("update", name, price, new_name,
          update_med(read_db(file), name, price, new_name), NoFollow)

Delete ==
  \E name \in NameInputs :
    Serve("delete", name, 0, NoneStr, delete_med(read_db(file), name), NoFollow)

(***************************************************************************)
(* The storage artifact is shared with the outside world: it can be        *)
(* removed, replaced by unparsable bytes or by an object without a         *)
(* "medicines" list, and a stored price can be replaced by a string or a   *)
(* boolean, or dropped.                                                    *)
(***************************************************************************)
External(f) ==
  /\ file' = f
  /\ last' = NoRequest
  /\ UNCHANGED <<procs, writes, served>>

RemoveFile == file.kind # "missing" /\ External(MissingFile)

GarbleFile == file.kind # "corrupt" /\ External(CorruptFile)

ReshapeFile == file.kind # "noshape" /\ External(NoShapeFile)

SpoilPrice ==
  /\ file.kind = "ok"
  /\ \E i \in DOMAIN file.meds, price \in {BadPrice, NoPrice, TruePrice} :
       /\ file.meds[i].price # price
       /\ External(Doc([file.meds EXCEPT ![i].price = price]))

\* The CRUD service with its storage removed, garbled or reshaped at will.
Next ==
  \/ ListAll
  \/ GetSingle
  \/ Create
  \/ Update
  \/ Delete
  \/ RemoveFile
  \/ GarbleFile
  \/ ReshapeFile

Spec == Init /\ [][Next]_vars

\* The average-price service over a store whose prices are also spoiled.
NextAvg ==
  \/ AveragePrice
  \/ Create
  \/ Delete
  \/ SpoilPrice
  \/ RemoveFile
  \/ GarbleFile
  \/ ReshapeFile

SpecAvg == Init /\ [][NextAvg]_vars

(***************************************************************************)
(* Concurrent service: two workers serve mutating requests side by side.   *)
(* A request loads the document and computes its answer in memory (Begin), *)
(* and, when it has something to persist, calls write_db, which opens the  *)
(* file for writing, truncating it (OpenFile), and then dumps the document *)
(* and closes the file (Dump).  Nothing orders the steps of one worker     *)
(* against those of the other.                                             *)
(***************************************************************************)
ConcNames == {<<"a">>, <<"b">>}

ConcCreatePrice == 10

ConcUpdatePrice == 20

\* Length in characters of json.dump(data, f, indent=2) for prices such as
\* 10.0 and 20.0.
EmptyDocBytes == 21

ListBytes == 23

RecordBytes == 51

RECURSIVE NameBytes(_)
NameBytes(meds) ==
  IF Len(meds) = 0 THEN 0 ELSE Len(Head(meds).name) + NameBytes(Tail(meds))

DocBytes(meds) ==
  IF Len(meds) = 0 THEN EmptyDocBytes
  ELSE ListBytes + RecordBytes * Len(meds) + NameBytes(meds)

\* open("w"): the file exists and is empty, which json.load rejects.
open_truncate(f) == CorruptFile

\* json.dump and close: the document is written from offset 0.  Over a
\* longer document that another writer put there after this writer's open,
\* the tail of that document survives and the result does not parse.
dump_merges(f, meds) == Doc(IF f.kind = "ok" THEN f.meds \o meds ELSE meds)

dump(f, meds) ==
  IF f.kind = "ok" /\ DocBytes(meds) < DocBytes(f.meds)
  THEN CorruptFile
  ELSE Doc(meds)

Begin(p, op, name, price, plan) ==
  /\ procs[p].pc = "idle"
  /\ served < MaxRequests
  /\ served' = served + 1
  /\ procs' = [procs EXCEPT ![p] =
                 [pc |-> IF plan.write THEN "open" ELSE "idle",
                  op |-> op, name |-> name, price |-> price,
                  status |-> IF plan.write THEN 0 ELSE plan.status,
                  seen |-> read_db(file).meds,
                  meds |-> plan.meds]]
  /\ UNCHANGED <<file, last, writes>>

BeginCreate(p) ==
  \E name \in ConcNames :
    Begin(p, "create", name, ConcCreatePrice,
          create_med(read_db(file), name, ConcCreatePrice))

BeginUpdate(p) ==
  \E name \in ConcNames :
    Begin(p, "update", name, ConcUpdatePrice,
          update_med(read_db(file), name, ConcUpdatePrice, NoneStr))

BeginDelete(p) ==
  \E name \in ConcNames :
    Begin(p, "delete", name, 0, delete_med(read_db(file), name))

OpenFile(p) ==
  /\ procs[p].pc = "open"
  /\ file' = open_truncate(file)
  /\ procs' = [procs EXCEPT ![p].pc = "dump"]
  /\ UNCHANGED <<last, writes, served>>

\* The request returns its success message once write_db has returned.
Dump(p) ==
  /\ procs[p].pc = "dump"
  /\ file' = dump(file, procs[p].meds)
  /\ procs' = [procs EXCEPT ![p].pc = "idle", ![p].status = 200]
  /\ writes' = Append(writes, [worker |-> p, op |-> procs[p].op,
                               name |-> procs[p].name, price |-> procs[p].price,
                               seen |-> procs[p].seen, meds |-> procs[p].meds])
  /\ UNCHANGED <<last, served>>

NextConc ==
  \E p \in Workers :
    \/ BeginCreate(p)
    \/ BeginUpdate(p)
    \/ BeginDelete(p)
    \/ OpenFile(p)
    \/ Dump(p)

SpecConc == Init /\ [][NextConc]_vars

(***************************************************************************)
(* Properties of the sequential service                                    *)
(***************************************************************************)
\* The normalized key of the glossary: trimmed, lower-cased.
Key(s) == Lower(Strip(s))

\* The records a request found: none when the file is absent or holds no list.
Found(f) == IF f.kind = "ok" THEN f.meds ELSE <<>>

Readable(f) == f.kind # "corrupt"

Matching(meds, s) == {i \in DOMAIN meds : Key(meds[i].name) = Key(s)}

RECURSIVE Without(_, _)
Without(meds, k) ==
  IF Len(meds) = 0 THEN <<>>
  ELSE IF Key(meds[Len(meds)].name) = k
       THEN Without(SubSeq(meds, 1, Len(meds) - 1), k)
       ELSE Append(Without(SubSeq(meds, 1, Len(meds) - 1), k), meds[Len(meds)])

Mutating == {"create", "update", "delete"}

\* C1: no two records of the persisted store have the same normalized name,
\* after any sequence of create, update and delete requests on a store that
\* starts missing or empty.
C1_UniqueNames ==
  \A i, j \in DOMAIN file.meds :
     i # j => Key(file.meds[i].name) # Key(file.meds[j].name)

C1_Witness ==
  /\ last.op = "update" /\ last.status = 200 /\ last.new_name.some
  /\ Len(file.meds) >= 2
  /\ file # last.before

\* C2: a create, update or delete that returns 400, 404 or 500 leaves the
\* persisted document as it found it; a delete of a non-empty name that
\* matches no record of a readable store returns 404; a request that
\* returns 200 has persisted its whole effect.
C2_AllOrNothing ==
  last.op \in Mutating =>
    LET found == Found(last.before) IN
    /\ last.status \in {200, 400, 404, 500}
    /\ last.status # 200 => file = last.before
    /\ (/\ last.op = "delete" /\ Len(Strip(last.name)) > 0
        /\ Readable(last.before) /\ Matching(found, last.name) = {})
         => last.status = 404 /\ file = last.before
    /\ (last.status = 200 /\ last.op = "create")
         => file = Doc(Append(found, Med(Strip(last.name), Num(last.price))))
    /\ (last.status = 200 /\ last.op = "delete")
         => /\ file = Doc(Without(found, Key(last.name)))
            /\ Len(file.meds) < Len(found)
    /\ (last.status = 200 /\ last.op = "update")
         => \E i \in Matching(found, last.name) :
              file = Doc([found EXCEPT ![i] =
                            Med(IF last.new_name.some
                                THEN Strip(last.new_name.s) ELSE @.name,
                                Num(last.price))])

C2_Witness ==
  /\ last.op = "delete" /\ last.status = 404
  /\ Len(file.meds) >= 1 /\ file = last.before

\* C3 as stated: a get-by-name issued right after an accepted create, with
\* the exact name given to create, returns that name and that price.
C3_GetExactInput ==
  (last.op = "get" /\ last.follows.some /\ last.name = last.follows.s)
    => /\ last.status = 200
       /\ last.med = Med(last.follows.s, Num(last.follows.price))

\* C3: a get-by-name issued right after an accepted create, with the
\* trimmed form of the name given to create, succeeds and returns the
\* trimmed name and the price given to create.
C3_GetTrimmed ==
  (last.op = "get" /\ last.follows.some /\ last.name = Strip(last.follows.s))
    => /\ last.status = 200
       /\ last.med = Med(Strip(last.follows.s), Num(last.follows.price))

C3_Witness ==
  /\ last.op = "get" /\ last.follows.some
  /\ last.follows.s # Strip(last.follows.s)
  /\ last.name = Strip(last.follows.s)
  /\ last.status = 200

\* C4: a create whose normalized name equals that of a record still in the
\* store (in particular the record of an earlier successful create, whose
\* name it differs from only by case) is rejected with 400, as a conflict
\* when its inputs are valid, and the store gains no record.
C4_CaseConflict ==
  (/\ last.op = "create" /\ Readable(last.before)
   /\ Matching(Found(last.before), last.name) # {})
    => /\ last.status = 400
       /\ last.price > 0 => last.detail = "exists"
       /\ file = last.before

C4_Witness ==
  /\ last.op = "create" /\ last.follows.some
  /\ Strip(last.name) # Strip(last.follows.s)
  /\ Lower(Strip(last.name)) = Lower(Strip(last.follows.s))
  /\ last.status = 400 /\ last.detail = "exists"
  /\ Len(file.meds) = Len(last.before.meds)

\* C5: an update of an existing record whose new_name has the normalized
\* key of a different record is rejected and changes nothing; an update
\* (with a positive price) whose new_name equals the record's own name
\* case-insensitively succeeds and sets the name to new_name and the price
\* to the given price.
C5_RenameCollision ==
  (last.op = "update" /\ last.new_name.some /\ Readable(last.before)) =>
    LET found == Found(last.before) IN
    \A i \in Matching(found, last.name) :
      /\ (\E j \in Matching(found, last.new_name.s) : j # i)
           => last.status = 400 /\ file = last.before
      /\ (last.price > 0 /\ Lower(last.new_name.s) = Lower(found[i].name))
           => /\ last.status = 200
              /\ file = Doc([found EXCEPT ![i] =
                               Med(last.new_name.s, Num(last.price))])

C5_Witness ==
  /\ last.op = "update" /\ last.new_name.some /\ last.status = 200
  /\ \E i \in DOMAIN last.before.meds :
       /\ last.before.meds[i].name # last.new_name.s
       /\ Lower(last.before.meds[i].name) = Lower(last.new_name.s)
       /\ file.meds[i] = Med(last.new_name.s, Num(last.price))
       /\ last.before.meds[i].price # Num(last.price)

ValidUpdate ==
  /\ last.op = "update"
  /\ Len(Strip(last.name)) > 0
  /\ last.price > 0
  /\ last.new_name.some => Len(Strip(last.new_name.s)) > 0

\* C6 as stated: a validated update fails with 404 whenever no record of
\* the (readable) store matches the current name, whatever new_name is.
C6_NotFoundAlways ==
  (/\ ValidUpdate /\ Readable(last.before)
   /\ Matching(Found(last.before), last.name) = {})
    => last.status = 404

\* C6: a validated update of a readable store in which no record matches
\* the current name fails with 404 when new_name is absent or matches no
\* record, and with the duplicate error 400 when new_name matches a record;
\* either way the store is unchanged.
C6_NotFoundUnlessDuplicate ==
  (/\ ValidUpdate /\ Readable(last.before)
   /\ Matching(Found(last.before), last.name) = {})
    => LET dup == /\ last.new_name.some
                  /\ Matching(Found(last.before), last.new_name.s) # {}
       IN /\ dup => last.status = 400 /\ last.detail = "exists"
          /\ ~dup => last.status = 404
          /\ file = last.before

C6_Witness ==
  /\ ValidUpdate /\ last.new_name.some /\ last.status = 404
  /\ Len(last.before.meds) >= 1

\* C10: while the persisted content is unparsable, list, get-by-name and
\* validated create, update and delete all fail with 500 and leave the
\* content as it is; a missing file is read as the empty store, without
\* error.
ValidInputs ==
  \/ last.op \in {"list", "get"}
  \/ last.op = "create" /\ Len(Strip(last.name)) > 0 /\ last.price > 0
  \/ ValidUpdate
  \/ last.op = "delete" /\ Len(Strip(last.name)) > 0

C10_CorruptionSurfaced ==
  /\ (last.before.kind = "corrupt" /\ ValidInputs)
       => /\ last.status = 500 /\ last.detail = "corrupted"
          /\ file = last.before
  /\ (last.before.kind = "missing" /\ last.op # "none")
       => /\ last.status # 500
          /\ last.op = "list" => last.status = 200 /\ last.listing = <<>>
          /\ last.op \in {"get", "update", "delete"} /\ ValidInputs
               => last.status = 404
          /\ last.op = "create" /\ ValidInputs
               => last.status = 200 /\ Len(file.meds) = 1

C10_Witness ==
  /\ last.op = "create" /\ last.before.kind = "corrupt"
  /\ last.status = 500 /\ file.kind = "corrupt"

(***************************************************************************)
(* Properties of the average-price request                                 *)
(***************************************************************************)
NumericAt(meds) == {i \in DOMAIN meds : meds[i].price.t = "num"}

RECURSIVE Total(_, _)
Total(meds, idx) ==
  IF idx = {} THEN 0
  ELSE LET i == CHOOSE k \in idx : TRUE IN meds[i].price.v + Total(meds, idx \ {i})

PricesOf(meds) == [i \in DOMAIN meds |-> meds[i].price]

\* C7 as stated: get average price returns a result and no error in every
\* state of the storage artifact, the unparsable one included.
C7_NeverFails == last.op = "average" => last.status = 200

\* C7: get average price fails, with 500, exactly when the persisted
\* content is unparsable; with the file missing, without a list, or holding
\* records whose prices are strings or absent, it returns a result.
C7_FailsOnlyWhenCorrupt ==
  last.op = "average" =>
    /\ last.status \in {200, 500}
    /\ last.status = 500 <=> last.before.kind = "corrupt"
    /\ file = last.before

C7_Witness ==
  /\ last.op = "average" /\ last.status = 200
  /\ \E i, j \in DOMAIN last.before.meds :
       last.before.meds[i].price = BadPrice /\ last.before.meds[j].price = NoPrice

\* C8: count is the number of stored records whose price is a number and
\* average_price is the sum of those prices divided by count (10, "bad",
\* 20 give 15 and 2); with no numeric price, average is none and count 0.
C8_AverageOfNumeric ==
  (last.op = "average" /\ last.status = 200) =>
    LET meds == Found(last.before)
        idx == NumericAt(meds)
    IN /\ last.count = Cardinality(idx)
       /\ idx = {} => last.avg = NoAvg
       /\ idx # {} => /\ last.avg[2] > 0
                       /\ last.avg[1] * last.count = Total(meds, idx) * last.avg[2]
       /\ PricesOf(meds) = <<Num(10), BadPrice, Num(20)>>
            => last.avg = <<15, 1>> /\ last.count = 2

(***************************************************************************)
(* Properties of the concurrent service                                    *)
(***************************************************************************)
AllIdle == \A p \in Workers : procs[p].pc = "idle"

\* What a successful request makes of the list it loaded.
Effect(w) ==
  IF w.op = "create" THEN Append(w.seen, Med(w.name, Num(w.price)))
  ELSE IF w.op = "delete" THEN Without(w.seen, Key(w.name))
  ELSE [i \in DOMAIN w.seen |->
          IF Key(w.seen[i].name) = Key(w.name)
          THEN Med(w.seen[i].name, Num(w.price)) ELSE w.seen[i]]

\* C9: last writer wins on the whole document.  Once no write is under
\* way, a parsable file holds exactly the document of the request that
\* wrote last, which is that request's change applied to the list it had
\* loaded itself: of a concurrent request that wrote earlier and also
\* returned success, nothing is merged in.
C9_LastWriterWins ==
  (AllIdle /\ Len(writes) > 0 /\ file.kind = "ok") =>
    LET w == writes[Len(writes)] IN
    /\ file = Doc(w.meds)
    /\ w.meds = Effect(w)
    /\ \A p \in Workers : procs[p].op # "none" => procs[p].status \in {200, 400, 404, 500}

\* Both workers created a record from the same loaded list and both
\* returned success; the file holds the later one's record only.
C9_Witness ==
  /\ AllIdle /\ Len(writes) >= 2 /\ file.kind = "ok"
  /\ LET w1 == writes[Len(writes) - 1]
         w2 == writes[Len(writes)]
     IN /\ w1.worker # w2.worker
        /\ w1.op = "create" /\ w2.op = "create"
        /\ w1.seen = w2.seen
        /\ procs[w1.worker].status = 200 /\ procs[w2.worker].status = 200
        /\ file = Doc(w2.meds)
        /\ \A i \in DOMAIN file.meds : file.meds[i].name # w1.name
        /\ \E i \in DOMAIN file.meds : file.meds[i].name = w2.name

====
